---- MODULE Spec2Model ----
(***************************************************************************)
(* LightAV scan pipeline: file event watcher, bounded scan queue, worker   *)
(* pool gated by RUNNING and the ResourceController, process_file          *)
(* (hash -> cache -> decide -> store -> log -> quarantine), the quarantine *)
(* directory, the decisions log and the BackendController operations.      *)
(***************************************************************************)
EXTENDS Integers, Sequences, FiniteSets, TLC

----------------------------------------------------------------------------
(* Bounds of the model *)

\* scan_queue's maxsize, scaled down from Queue(maxsize=1000)
MaxQueue == 2
\* paths the watcher enqueues, per specification
PoolEvents == 2
ScanEvents == 3
StoreEvents == 2
LiveEvents == 3
TwinEvents == 2
WatchEvents == 2
\* writes of the environment to the watched directories
ScanWrites == 1
\* effective start_protection / stop_protection calls
PoolToggles == 3
\* restore / delete requests of the presentation layer
StoreGuiOps == 1
\* largest value int(time.time()) takes
MaxClock == 1
\* the audit log alone: calls of the log functions, clock readings per
\* second and the last reading of the clock
LogCalls == 3
TicksPerSecond == 2
MaxTick == 3
\* single-scan requests of the presentation layer: accepted, refused, and
\* protection toggles meanwhile
GuiRequests == 3
GuiRefusals == 1
GuiToggles == 2
\* restores from quarantine: watcher events and restore requests
RestoreEvents == 2
RestoreGuiOps == 2
\* readers of the audit log: lines the file holds and the largest n asked
MaxLines == 3
MaxTail == 4

\* start_workers(num_workers=2)
NumWorkers == 2

Workers == 1..NumWorkers

None == "None"

----------------------------------------------------------------------------
(* Files, contents, identities *)

Downloads == "Downloads"
Desktop == "Desktop"

\* a path: directory, file stem and extension
MkPath(d, s, e) == [dir |-> d, stem |-> s, ext |-> e]

\* Path(file_path).name
PathName(p) == <<p.stem, p.ext>>

\* os.path.splitext(path)[1]
splitext(p) == p.ext

\* the executables of the watched directories
Paths == {MkPath(Downloads, "a", ".exe"), MkPath(Desktop, "a", ".exe")}

\* a watched file the allow-list leaves out
OtherPaths == {MkPath(Downloads, "notes", ".txt")}

Contents == {"clean", "packed", "notpe"}

\* sha.hexdigest(): a function of the bytes only, distinct bytes give
\* distinct digests
compute_digest(c) == <<"sha256", c>>

\* no digest computed yet
NoHash == <<>>

\* get_cached_verdict: "row[0] if row else None"; the absent row
NoRow == -1

Idents == {compute_digest(c) : c \in Contents}

\* Verdict enum and its int() / Verdict() conversions
BENIGN == "BENIGN"
MALICIOUS == "MALICIOUS"
Verdict == {BENIGN, MALICIOUS}

VerdictInt(v) == IF v = MALICIOUS THEN 1 ELSE 0

VerdictOf(i) == IF i = 1 THEN MALICIOUS ELSE BENIGN

\* thresholds (entropy scaled by 10)
MAX_ENTROPY_THRESHOLD == 70
MIN_SECTION_COUNT == 2
MAX_SECTION_COUNT == 10

\* the 10-element vector extract_features builds, entropies scaled by 10:
\* <<size_kb, sections, mean_entropy, max_entropy, dlls, apis, signature,
\*   entry_point, code_size, data_size>>
PEFeatures(c) ==
    CASE c = "clean"  -> <<500, 3, 21, 30, 5, 40, 1, 4096, 20000, 5000>>
      [] c = "packed" -> <<120, 4, 65, 78, 2, 10, 0, 4096, 8000, 1000>>
      [] OTHER        -> <<10, 1, 20, 30, 0, 0, 1, 512, 100, 0>>

\* extract_features(path) on the file system f: the vector, or the error
\* raised (os.path.getsize on a missing file, pefile on a non-PE file)
extract_features(f, p) ==
    IF f[p] = None THEN [err |-> "FileNotFoundError"]
    ELSE IF f[p] = "notpe" THEN [err |-> "PEFormatError"]
    ELSE [err |-> None, features |-> PEFeatures(f[p])]

\* the static rules without rule 1
rule_based_static_decision_rule2_only(features) ==
    LET section_count == features[2]
    IN  IF section_count < MIN_SECTION_COUNT
           \/ section_count > MAX_SECTION_COUNT
        THEN MALICIOUS
        ELSE None

\* the static rules without rule 2
rule_based_static_decision_rule1_only(features) ==
    LET max_entropy == features[4]
        has_signature == features[7]
    IN  IF max_entropy > MAX_ENTROPY_THRESHOLD /\ has_signature = 0
        THEN MALICIOUS
        ELSE None

\* static rules that answer BENIGN when no rule matches
rule_based_static_decision_benign(features) ==
    LET section_count == features[2]
        max_entropy == features[4]
        has_signature == features[7]
    IN  IF max_entropy > MAX_ENTROPY_THRESHOLD /\ has_signature = 0
        THEN MALICIOUS
        ELSE IF section_count < MIN_SECTION_COUNT
                \/ section_count > MAX_SECTION_COUNT
        THEN MALICIOUS
        ELSE BENIGN

rule_based_static_decision(features) ==
    LET section_count == features[2]
        max_entropy == features[4]
        has_signature == features[7]
    IN  IF max_entropy > MAX_ENTROPY_THRESHOLD /\ has_signature = 0
        THEN MALICIOUS
        ELSE IF section_count < MIN_SECTION_COUNT
                \/ section_count > MAX_SECTION_COUNT
        THEN MALICIOUS
        ELSE None

\* a decide that reports an inconclusive rule result as a rules verdict
decide_features_always_rules(features) ==
    LET rule_verdict == rule_based_static_decision(features)
    IN  [err |-> None,
         verdict |-> IF rule_verdict # None THEN rule_verdict ELSE BENIGN,
         source |-> "rules", extracted |-> TRUE]

\* decide lines 10-14: the rules on the extracted vector, else the default
decide_features(features) ==
    LET rule_verdict == rule_based_static_decision(features)
    IN  IF rule_verdict # None
        THEN [err |-> None, verdict |-> rule_verdict,
              source |-> "rules", extracted |-> TRUE]
        ELSE [err |-> None, verdict |-> BENIGN,
              source |-> "default", extracted |-> TRUE]

\* What decide yields once the cache gave nothing
decide_uncached(f, p) ==
    LET x == extract_features(f, p)
    IN  IF x.err # None
        THEN [err |-> x.err, verdict |-> None, source |-> None,
              extracted |-> TRUE]
        ELSE decide_features(x.features)

\* decide testing "if cached_verdict:" (a cached 0 counts as no verdict)
decide_truthy(f, p, cached_verdict) ==
    IF cached_verdict = 1
    THEN [err |-> None, verdict |-> VerdictOf(cached_verdict),
          source |-> "cache", extracted |-> FALSE]
    ELSE decide_uncached(f, p)

\* decide(path, cached_verdict): [err, verdict, source, extracted]; extracted
\* tells whether extract_features was called
decide(f, p, cached_verdict) ==
    IF cached_verdict # NoRow
    THEN [err |-> None, verdict |-> VerdictOf(cached_verdict),
          source |-> "cache", extracted |-> FALSE]
    ELSE decide_uncached(f, p)

----------------------------------------------------------------------------
(* Resource governor *)

CPU_HIGH == 80
MEM_HIGH == 80
CPU_RESUME == 60
MEM_RESUME == 60

\* values get_cpu_usage() / get_memory_usage() may return
Samples == {50, 70, 90}

\* a should_pause that asks for both samples to be high
should_pause_result_both(cpu, mem) == cpu > CPU_HIGH /\ mem > MEM_HIGH

\* ResourceController.should_pause: what it returns for its samples
should_pause_result(cpu, mem) == cpu > CPU_HIGH \/ mem > MEM_HIGH

\* ResourceController.should_resume: what it returns for its samples
should_resume_result(cpu, mem) == cpu < CPU_RESUME /\ mem < MEM_RESUME

----------------------------------------------------------------------------
(* State *)

VARIABLES
    RUNNING,            \* runtime_state.RUNNING (threading.Event)
    protection_active,  \* BackendController.protection_active
    paused,             \* ResourceController.paused
    scan_queue,         \* main_agent.scan_queue
    wk,                 \* per worker thread: position and locals
    fs,                 \* watched directories: path -> content or None
    cache,              \* hash_cache.db: the rows (hash, verdict) of table cache
    log,                \* logs/decisions.log, one record per line
    q_files,            \* quarantine/files: payloads, name -> content
    q_meta,             \* quarantine/files: sidecars, name -> metadata
    clock,              \* int(time.time())
    budget,             \* what is left of the bounds
    hist                \* history: scan outcomes, moves, pause snapshot

vars == <<RUNNING, protection_active, paused, scan_queue, wk, fs, cache,
          log, q_files, q_meta, clock, budget, hist>>

NoPath == MkPath(None, None, None)
NoName == <<>>

Idle == [pc |-> "running", path |-> NoPath, file_hash |-> NoHash,
         cached |-> NoRow, verdict |-> None, source |-> None,
         q_name |-> NoName, scan |-> 0, prior |-> {}, extracted |-> FALSE,
         wrote |-> NoPath, stored |-> FALSE]

EmptyFn == [x \in {} |-> None]

\* the state after start-up, with the files the watched directories hold
\* and what the environment may still do
InitWith(files, b) ==
    /\ RUNNING = TRUE
    /\ protection_active = FALSE
    /\ paused = FALSE
    /\ scan_queue = <<>>
    /\ wk = [w \in Workers |-> Idle]
    /\ fs = files
    /\ cache = {}
    /\ log = <<>>
    /\ q_files = EmptyFn
    /\ q_meta = EmptyFn
    /\ clock = 0
    /\ budget = b
    /\ hist = [outcomes |-> EmptyFn, nscans |-> 0, moves |-> {},
               atPause |-> <<>>, dropped |-> FALSE, gui |-> [op |-> None],
               seq |-> {}, attempts |-> {}, late |-> {}, put |-> EmptyFn,
               inflight |-> {}, further |-> [w \in Workers |-> 0]]

Set(w, r) == wk' = [wk EXCEPT ![w] = r]

\* the positions of a worker inside process_file
ScanPcs == {"compute_hash", "get_cached_verdict", "decide", "store_verdict",
            "log_decision", "quarantine_meta", "quarantine_move",
            "log_quarantine"}

\* history: the scans that are between get() and task_done()
InFlight == {wk[w].scan : w \in {v \in Workers : wk[v].pc \in ScanPcs}}

----------------------------------------------------------------------------
(* Worker loop: main_agent.worker *)

\* line 15: if not RUNNING.is_set(): sleep(0.5); continue
worker_running(w) ==
    /\ wk[w].pc = "running"
    /\ Set(w, [wk[w] EXCEPT !.pc = IF RUNNING THEN "should_pause"
                                   ELSE "running"])
    /\ UNCHANGED <<RUNNING, protection_active, paused, scan_queue, fs, cache,
                   log, q_files, q_meta, clock, budget, hist>>

\* a worker that calls should_pause() and goes on to get() whatever it
\* returns
worker_should_pause_ignored(w, cpu, mem) ==
    /\ wk[w].pc = "should_pause"
    /\ paused' = (paused \/ should_pause_result(cpu, mem))
    /\ Set(w, [wk[w] EXCEPT !.pc = "get"])
    /\ UNCHANGED <<RUNNING, protection_active, scan_queue, fs, cache,
                   log, q_files, q_meta, clock, budget, hist>>

\* line 18 with the samples should_pause() takes
worker_should_pause_sample(w, cpu, mem) ==
    /\ wk[w].pc = "should_pause"
    /\ IF should_pause_result(cpu, mem)
       THEN /\ paused' = TRUE
            /\ Set(w, [wk[w] EXCEPT !.pc = "running"])
       ELSE /\ paused' = paused
            /\ Set(w, [wk[w] EXCEPT !.pc = "get"])
    /\ UNCHANGED <<RUNNING, protection_active, scan_queue, fs, cache,
                   log, q_files, q_meta, clock, budget, hist>>

\* line 18: if controller.should_pause(): sleep(2); continue
worker_should_pause(w) ==
    \E cpu \in Samples, mem \in Samples :
       worker_should_pause_sample(w, cpu, mem)

\* history: a scan of path p that quarantined it has returned
QuarantinedBefore(p) ==
    \E m \in hist.moves : m.path = p /\ m.scan \in DOMAIN hist.outcomes

\* a worker whose get() has no timeout: it waits for an item
worker_get_blocking(w) ==
    /\ wk[w].pc = "get"
    /\ scan_queue # <<>>
    /\ scan_queue' = Tail(scan_queue)
    /\ Set(w, [wk[w] EXCEPT !.pc = "compute_hash",
                            !.path = Head(scan_queue),
                            !.scan = hist.nscans + 1])
    /\ hist' = [hist EXCEPT
          !.nscans = @ + 1,
          !.seq = IF QuarantinedBefore(Head(scan_queue))
                  THEN @ \cup {hist.nscans + 1} ELSE @,
          !.further[w] = IF RUNNING THEN @ ELSE @ + 1]
    /\ UNCHANGED <<RUNNING, protection_active, paused, fs, cache,
                   log, q_files, q_meta, clock, budget>>

\* lines 22-25: path = scan_queue.get(timeout=1); Empty -> continue
\* (history: further counts the items a worker took with RUNNING cleared
\* since RUNNING was last cleared)
worker_get(w) ==
    /\ wk[w].pc = "get"
    /\ IF scan_queue # <<>>
       THEN /\ scan_queue' = Tail(scan_queue)
            /\ Set(w, [wk[w] EXCEPT !.pc = "compute_hash",
                                    !.path = Head(scan_queue),
                                    !.scan = hist.nscans + 1])
            /\ hist' = [hist EXCEPT
                  !.nscans = @ + 1,
                  !.seq = IF QuarantinedBefore(Head(scan_queue))
                          THEN @ \cup {hist.nscans + 1} ELSE @,
                  !.further[w] = IF RUNNING THEN @ ELSE @ + 1]
       ELSE /\ Set(w, [wk[w] EXCEPT !.pc = "running"])
            /\ UNCHANGED <<scan_queue, hist>>
    /\ UNCHANGED <<RUNNING, protection_active, paused, fs, cache,
                   log, q_files, q_meta, clock, budget>>

\* lines 28-34: process_file returned or raised; task_done(); loop
Finish(w, stage) ==
    /\ Set(w, Idle)
    /\ hist' = [hist EXCEPT !.outcomes = (wk[w].scan :> stage) @@ @]

\* a worker whose thread ends when process_file raises
Raise_terminate(w, stage) ==
    /\ Set(w, [Idle EXCEPT !.pc = "terminated"])
    /\ hist' = [hist EXCEPT !.outcomes = (wk[w].scan :> stage) @@ @]

\* process_file raised in the call named by stage: the except clause of
\* lines 31-32 prints the error
Raise(w, stage) == Finish(w, stage)

\* process_file returned its verdict
Return(w) == Finish(w, "return")

----------------------------------------------------------------------------
(* scanner.process_file, one action per call it makes *)

\* history: the verdicts of the scans of identity h that have returned
ReturnedVerdicts(h) ==
    {log[i].verdict : i \in {j \in DOMAIN log :
        /\ log[j].action = "decision"
        /\ log[j].hash = h
        /\ log[j].scan \in DOMAIN hist.outcomes
        /\ hist.outcomes[log[j].scan] = "return"}}

\* a process_file that writes the failed hashing into the audit log
scan_compute_hash_logged(w) ==
    /\ wk[w].pc = "compute_hash"
    /\ IF fs[wk[w].path] = None
       THEN /\ Raise(w, "compute_hash")
            /\ log' = Append(log, [action |-> "error", file |-> wk[w].path,
                                    scan |-> wk[w].scan])
       ELSE LET h == compute_digest(fs[wk[w].path])
            IN  /\ Set(w, [wk[w] EXCEPT
                      !.pc = "get_cached_verdict",
                      !.file_hash = h,
                      !.prior = ReturnedVerdicts(h)])
                /\ UNCHANGED <<hist, log>>
    /\ UNCHANGED <<RUNNING, protection_active, paused, scan_queue, fs, cache,
                   q_files, q_meta, clock, budget>>

\* line 13: file_hash = compute_hash(path); open() raises on a missing file
scan_compute_hash(w) ==
    /\ wk[w].pc = "compute_hash"
    /\ IF fs[wk[w].path] = None
       THEN Raise(w, "compute_hash")
       ELSE LET h == compute_digest(fs[wk[w].path])
            IN  /\ Set(w, [wk[w] EXCEPT
                      !.pc = "get_cached_verdict",
                      !.file_hash = h,
                      !.prior = ReturnedVerdicts(h)])
                /\ UNCHANGED hist
    /\ UNCHANGED <<RUNNING, protection_active, paused, scan_queue, fs, cache,
                   log, q_files, q_meta, clock, budget>>

\* hash_cache.get_cached_verdict: SELECT verdict FROM cache WHERE hash=?;
\* fetchone() gives a matching row or None
get_cached_verdict(file_hash) ==
    LET rows == {r \in cache : r.hash = file_hash}
    IN  IF rows = {} THEN NoRow ELSE (CHOOSE r \in rows : TRUE).verdict

\* line 14: cached = get_cached_verdict(file_hash); sqlite3 may raise
scan_get_cached_verdict(w) ==
    /\ wk[w].pc = "get_cached_verdict"
    /\ \/ /\ Set(w, [wk[w] EXCEPT !.pc = "decide",
                        !.cached = get_cached_verdict(wk[w].file_hash)])
          /\ UNCHANGED hist
       \/ Raise(w, "get_cached_verdict")
    /\ UNCHANGED <<RUNNING, protection_active, paused, scan_queue, fs, cache,
                   log, q_files, q_meta, clock, budget>>

\* a worker that puts the path back on the queue when decide raises
scan_decide_requeue(w) ==
    /\ wk[w].pc = "decide"
    /\ LET d == decide(fs, wk[w].path, wk[w].cached)
       IN  IF d.err # None
           THEN /\ Raise(w, "decide")
                /\ scan_queue' = Append(scan_queue, wk[w].path)
           ELSE /\ Set(w, [wk[w] EXCEPT !.pc = "store_verdict",
                               !.verdict = d.verdict,
                               !.source = d.source,
                               !.extracted = d.extracted])
                /\ UNCHANGED <<hist, scan_queue>>
    /\ UNCHANGED <<RUNNING, protection_active, paused, fs, cache,
                   log, q_files, q_meta, clock, budget>>

\* a process_file that gives up before decide when RUNNING is cleared
scan_decide_gated(w) ==
    /\ wk[w].pc = "decide"
    /\ LET d == decide(fs, wk[w].path, wk[w].cached)
       IN  IF d.err # None \/ ~RUNNING
           THEN Raise(w, "decide")
           ELSE /\ Set(w, [wk[w] EXCEPT !.pc = "store_verdict",
                               !.verdict = d.verdict,
                               !.source = d.source,
                               !.extracted = d.extracted])
                /\ UNCHANGED hist
    /\ UNCHANGED <<RUNNING, protection_active, paused, scan_queue, fs, cache,
                   log, q_files, q_meta, clock, budget>>

\* lines 16-17: verdict, source = decide(path, cached)
scan_decide(w) ==
    /\ wk[w].pc = "decide"
    /\ LET d == decide(fs, wk[w].path, wk[w].cached)
       IN  IF d.err # None
           THEN Raise(w, "decide")
           ELSE /\ Set(w, [wk[w] EXCEPT !.pc = "store_verdict",
                               !.verdict = d.verdict,
                               !.source = d.source,
                               !.extracted = d.extracted])
                /\ UNCHANGED hist
    /\ UNCHANGED <<RUNNING, protection_active, paused, scan_queue, fs, cache,
                   log, q_files, q_meta, clock, budget>>

\* a store_verdict that replaces the whole table by the one row
store_verdict_only_row(c, file_hash, verdict) ==
    {[hash |-> file_hash, verdict |-> verdict]}

\* hash_cache.store_verdict: INSERT OR REPLACE INTO cache VALUES (hash,
\* verdict); hash is the PRIMARY KEY, the row that has it is replaced
store_verdict(c, file_hash, verdict) ==
    {r \in c : r.hash # file_hash}
       \cup {[hash |-> file_hash, verdict |-> verdict]}

\* line 19: store_verdict(file_hash, int(verdict)); sqlite3 may raise
scan_store_verdict(w) ==
    /\ wk[w].pc = "store_verdict"
    /\ \/ /\ cache' = store_verdict(cache, wk[w].file_hash,
                                    VerdictInt(wk[w].verdict))
          /\ Set(w, [wk[w] EXCEPT !.pc = "log_decision", !.stored = TRUE])
          /\ hist' = [hist EXCEPT !.put =
                (wk[w].file_hash :> VerdictInt(wk[w].verdict)) @@ @]
       \/ /\ Raise(w, "store_verdict")
          /\ UNCHANGED cache
    /\ UNCHANGED <<RUNNING, protection_active, paused, scan_queue, fs,
                   log, q_files, q_meta, clock, budget>>

\* a log_decision that skips verdicts served from the cache
log_decision_uncached(l, file_path, file_hash, source, verdict, scan) ==
    IF source = "cache" THEN l
    ELSE Append(l, [action |-> "decision", file |-> PathName(file_path),
                    hash |-> file_hash, source |-> source,
                    verdict |-> VerdictInt(verdict), scan |-> scan])

\* logger.log_decision: the record appended (ts and ms left out; scan is the
\* history tag of the scan that wrote it)
log_decision(l, file_path, file_hash, source, verdict, scan) ==
    Append(l, [action |-> "decision", file |-> PathName(file_path),
               hash |-> file_hash, source |-> source,
               verdict |-> VerdictInt(verdict), scan |-> scan])

\* a process_file that quarantines whatever the verdict is
scan_log_decision_any_verdict(w) ==
    /\ wk[w].pc = "log_decision"
    /\ log' = log_decision(log, wk[w].path, wk[w].file_hash, wk[w].source,
                           wk[w].verdict, wk[w].scan)
    /\ Set(w, [wk[w] EXCEPT !.pc = "quarantine_meta"])
    /\ UNCHANGED <<RUNNING, protection_active, paused, scan_queue, fs, cache,
                   q_files, q_meta, clock, budget, hist>>

\* line 28: if verdict == Verdict.MALICIOUS
quarantines(verdict) == verdict = MALICIOUS

\* lines 20-28: log_decision(...); if verdict == MALICIOUS: quarantine,
\* else return verdict
scan_log_decision(w) ==
    /\ wk[w].pc = "log_decision"
    /\ log' = log_decision(log, wk[w].path, wk[w].file_hash, wk[w].source,
                           wk[w].verdict, wk[w].scan)
    /\ IF quarantines(wk[w].verdict)
       THEN /\ Set(w, [wk[w] EXCEPT !.pc = "quarantine_meta"])
            /\ UNCHANGED hist
       ELSE Return(w)
    /\ UNCHANGED <<RUNNING, protection_active, paused, scan_queue, fs, cache,
                   q_files, q_meta, clock, budget>>

----------------------------------------------------------------------------
(* quarantine.quarantine_file *)

\* line 14: f"{timestamp}_{file_hash}_{filename}"
quarantine_name(timestamp, file_hash, file_path) ==
    <<timestamp, file_hash, PathName(file_path)>>

\* lines 19-25
metadata(timestamp, file_hash, file_path) ==
    [original_path |-> file_path, file_hash |-> file_hash,
     timestamp |-> timestamp, threat_type |-> "Malicious",
     original_name |-> PathName(file_path)]

Remove(f, x) == [y \in DOMAIN f \ {x} |-> f[y]]

\* lines 12-29: the name is built and the sidecar written (open(.., 'w')
\* creates or truncates it)
scan_quarantine_meta(w) ==
    /\ wk[w].pc = "quarantine_meta"
    /\ LET n == quarantine_name(clock, wk[w].file_hash, wk[w].path)
       IN  /\ q_meta' = (n :> metadata(clock, wk[w].file_hash, wk[w].path))
                          @@ q_meta
           /\ Set(w, [wk[w] EXCEPT !.pc = "quarantine_move", !.q_name = n,
                                   !.wrote = q_meta'[n].original_path])
           /\ hist' = [hist EXCEPT !.attempts = @ \cup
                 {[scan |-> wk[w].scan, path |-> wk[w].path, name |-> n]}]
    /\ UNCHANGED <<RUNNING, protection_active, paused, scan_queue, fs, cache,
                   log, q_files, clock, budget>>

\* a quarantine_file whose failed move is swallowed: the scan goes on to
\* log_quarantine
scan_quarantine_move_swallow(w) ==
    /\ wk[w].pc = "quarantine_move"
    /\ IF fs[wk[w].path] = None
       THEN /\ Set(w, [wk[w] EXCEPT !.pc = "log_quarantine"])
            /\ UNCHANGED <<fs, q_files, hist>>
       ELSE /\ q_files' = (wk[w].q_name :> fs[wk[w].path]) @@ q_files
            /\ fs' = [fs EXCEPT ![wk[w].path] = None]
            /\ Set(w, [wk[w] EXCEPT !.pc = "log_quarantine"])
            /\ hist' = [hist EXCEPT !.moves = @ \cup
                 {[scan |-> wk[w].scan, name |-> wk[w].q_name,
                   path |-> wk[w].path, content |-> fs[wk[w].path],
                   meta |-> wk[w].wrote]}]
    /\ UNCHANGED <<RUNNING, protection_active, paused, scan_queue, cache,
                   log, q_meta, clock, budget>>

\* a quarantine_file that copies the file and leaves the original in place
scan_quarantine_copy(w) ==
    /\ wk[w].pc = "quarantine_move"
    /\ IF fs[wk[w].path] = None
       THEN /\ Raise(w, "quarantine_file")
            /\ UNCHANGED <<fs, q_files>>
       ELSE /\ q_files' = (wk[w].q_name :> fs[wk[w].path]) @@ q_files
            /\ fs' = fs
            /\ Set(w, [wk[w] EXCEPT !.pc = "log_quarantine"])
            /\ hist' = [hist EXCEPT !.moves = @ \cup
                 {[scan |-> wk[w].scan, name |-> wk[w].q_name,
                   path |-> wk[w].path, content |-> fs[wk[w].path],
                   meta |-> wk[w].wrote]}]
    /\ UNCHANGED <<RUNNING, protection_active, paused, scan_queue, cache,
                   log, q_meta, clock, budget>>

\* line 31: shutil.move(file_path, dest); raises when the source is gone,
\* replaces dest when it exists
scan_quarantine_move(w) ==
    /\ wk[w].pc = "quarantine_move"
    /\ IF fs[wk[w].path] = None
       THEN /\ Raise(w, "quarantine_file")
            /\ UNCHANGED <<fs, q_files>>
       ELSE /\ q_files' = (wk[w].q_name :> fs[wk[w].path]) @@ q_files
            /\ fs' = [fs EXCEPT ![wk[w].path] = None]
            /\ Set(w, [wk[w] EXCEPT !.pc = "log_quarantine"])
            /\ hist' = [hist EXCEPT !.moves = @ \cup
                 {[scan |-> wk[w].scan, name |-> wk[w].q_name,
                   path |-> wk[w].path, content |-> fs[wk[w].path],
                   meta |-> wk[w].wrote]}]
    /\ UNCHANGED <<RUNNING, protection_active, paused, scan_queue, cache,
                   log, q_meta, clock, budget>>

\* logger.log_quarantine: the record appended
log_quarantine(l, file_path, quarantine_path, scan) ==
    Append(l, [action |-> "quarantine", original |-> file_path,
               quarantine_path |-> quarantine_path, scan |-> scan])

\* scanner lines 30-32: log_quarantine(path, q_path); return verdict
scan_log_quarantine(w) ==
    /\ wk[w].pc = "log_quarantine"
    /\ log' = log_quarantine(log, wk[w].path, wk[w].q_name, wk[w].scan)
    /\ Return(w)
    /\ UNCHANGED <<RUNNING, protection_active, paused, scan_queue, fs, cache,
                   q_files, q_meta, clock, budget>>

----------------------------------------------------------------------------
(* file_monitor.FileEventHandler *)

MONITORED_EXTENSIONS == {".exe", ".dll"}

\* str.lower() on the extensions of the model
Lower(e) == CASE e = ".EXE" -> ".exe"
              [] e = ".Exe" -> ".exe"
              [] e = ".DLL" -> ".dll"
              [] e = ".Dll" -> ".dll"
              [] e = ".TXT" -> ".txt"
              [] e = ".PDF" -> ".pdf"
              [] OTHER -> e

\* a _should_process that compares the extension as it is written
should_process_case_sensitive(is_directory, src_path) ==
    IF is_directory THEN FALSE
    ELSE splitext(src_path) \in MONITORED_EXTENSIONS

\* _should_process(event)
should_process(is_directory, src_path) ==
    IF is_directory THEN FALSE
    ELSE Lower(splitext(src_path)) \in MONITORED_EXTENSIONS

\* a put that never finds the queue full
put_nowait_unbounded(q, item) == [full |-> FALSE, queue |-> Append(q, item)]

\* Queue.put_nowait: Full is raised when maxsize items are queued
put_nowait(q, item) ==
    IF Len(q) >= MaxQueue THEN [full |-> TRUE, queue |-> q]
    ELSE [full |-> FALSE, queue |-> Append(q, item)]

\* history: a process_file call has raised
ErrorSeen == \E s \in DOMAIN hist.outcomes : hist.outcomes[s] # "return"

\* on_created / on_modified: _should_process, then _enqueue, which drops the
\* path when the queue is full (history: the queue is FIFO, so the item
\* put is the one that the (nscans + Len + 1)-th dequeue returns)
on_event(is_directory, src_path) ==
    /\ IF should_process(is_directory, src_path)
       THEN LET r == put_nowait(scan_queue, src_path)
            IN  /\ r.full \/ budget.events > 0
                /\ scan_queue' = r.queue
                /\ budget' = IF r.full THEN budget
                             ELSE [budget EXCEPT !.events = @ - 1]
                /\ hist' = [hist EXCEPT
                      !.dropped = @ \/ r.full,
                      !.late = IF ErrorSeen /\ ~r.full
                               THEN @ \cup {hist.nscans + Len(scan_queue) + 1}
                               ELSE @]
       ELSE UNCHANGED <<scan_queue, budget, hist>>
    /\ UNCHANGED <<RUNNING, protection_active, paused, wk, fs, cache,
                   log, q_files, q_meta, clock>>

\* the kinds of event watchdog dispatches
EventTypes == {"created", "modified", "moved", "deleted"}

\* FileEventHandler overrides on_created and on_modified; the other
\* handlers are the inherited ones, which do nothing
handles(event_type) == event_type \in {"created", "modified"}

\* FileSystemEventHandler.dispatch(event)
dispatch(event_type, is_directory, src_path) ==
    IF handles(event_type) THEN on_event(is_directory, src_path)
    ELSE UNCHANGED vars

----------------------------------------------------------------------------
(* BackendController: protection switch *)

start_protection ==
    /\ budget.toggles > 0
    /\ ~protection_active
    /\ RUNNING' = TRUE
    /\ protection_active' = TRUE
    /\ budget' = [budget EXCEPT !.toggles = @ - 1]
    /\ UNCHANGED <<paused, scan_queue, wk, fs, cache, log, q_files, q_meta,
                   clock, hist>>

stop_protection ==
    /\ budget.toggles > 0
    /\ protection_active
    /\ RUNNING' = FALSE
    /\ protection_active' = FALSE
    /\ budget' = [budget EXCEPT !.toggles = @ - 1]
    /\ hist' = [hist EXCEPT !.atPause = scan_queue,
                            !.inflight = InFlight,
                            !.further = [w \in Workers |-> 0]]
    /\ UNCHANGED <<paused, scan_queue, wk, fs, cache, log, q_files, q_meta,
                   clock>>

----------------------------------------------------------------------------
(* BackendController: quarantine operations *)

\* a log_restore that opens the log with mode "w"
log_restore_truncate(l, qpath, restored_path) ==
    <<[action |-> "restore", from |-> qpath, to |-> restored_path]>>

\* logger.log_restore: the record appended
log_restore(l, qpath, restored_path) ==
    Append(l, [action |-> "restore", from |-> qpath, to |-> restored_path])

\* restore_file_from_quarantine lines 221-239: the destination
restore_destination(quarantine_path, original_path) ==
    IF original_path # NoPath THEN original_path
    ELSE IF quarantine_path \in DOMAIN q_meta
    THEN q_meta[quarantine_path].original_path
    ELSE MkPath(Desktop, quarantine_path[3][1], quarantine_path[3][2])

\* shutil.move(quarantine_path, restore_to) on a regular file: raises when
\* the source is missing, replaces the destination when it exists
move_raises(quarantine_path, restore_to) == quarantine_path \notin DOMAIN q_files

\* a restore that leaves the sidecar where it is (restore_file alone)
restore_keep_meta(m, quarantine_path) == m

\* restore_file_from_quarantine lines 244-247: the sidecar is unlinked when
\* it exists
restore_unlink_meta(m, quarantine_path) == Remove(m, quarantine_path)

\* a restore that appends the Restore event and unlinks the sidecar before
\* it moves the payload
restore_log_first(quarantine_path, original_path) ==
    LET dest == restore_destination(quarantine_path, original_path)
    IN  /\ budget.gui > 0
        /\ budget' = [budget EXCEPT !.gui = @ - 1]
        /\ log' = log_restore(log, quarantine_path, dest)
        /\ q_meta' = restore_unlink_meta(q_meta, quarantine_path)
        /\ IF move_raises(quarantine_path, dest)
           THEN /\ hist' = [hist EXCEPT !.gui =
                     [op |-> "restore", name |-> quarantine_path,
                      dest |-> dest, ok |-> FALSE]]
                /\ UNCHANGED <<fs, q_files>>
           ELSE /\ fs' = [fs EXCEPT ![dest] = q_files[quarantine_path]]
                /\ q_files' = Remove(q_files, quarantine_path)
                /\ hist' = [hist EXCEPT !.gui =
                     [op |-> "restore", name |-> quarantine_path,
                      dest |-> dest, ok |-> TRUE]]
        /\ UNCHANGED <<RUNNING, protection_active, paused, scan_queue, wk,
                       cache, clock>>

\* restore_file_from_quarantine(quarantine_path, original_path):
\* restore_file (move, log_restore), then the sidecar is unlinked; any
\* exception is caught and False returned
restore_file_from_quarantine(quarantine_path, original_path) ==
    LET dest == restore_destination(quarantine_path, original_path)
    IN  /\ budget.gui > 0
        /\ budget' = [budget EXCEPT !.gui = @ - 1]
        /\ IF move_raises(quarantine_path, dest)
           THEN /\ hist' = [hist EXCEPT !.gui =
                     [op |-> "restore", name |-> quarantine_path,
                      dest |-> dest, ok |-> FALSE]]
                /\ UNCHANGED <<fs, q_files, q_meta, log>>
           ELSE /\ fs' = [fs EXCEPT ![dest] = q_files[quarantine_path]]
                /\ q_files' = Remove(q_files, quarantine_path)
                /\ log' = log_restore(log, quarantine_path, dest)
                /\ q_meta' = restore_unlink_meta(q_meta, quarantine_path)
                /\ hist' = [hist EXCEPT !.gui =
                     [op |-> "restore", name |-> quarantine_path,
                      dest |-> dest, ok |-> TRUE]]
        /\ UNCHANGED <<RUNNING, protection_active, paused, scan_queue, wk,
                       cache, clock>>

\* a delete that unlinks the payload and leaves the sidecar
delete_payload_only(quarantine_path) ==
    /\ budget.gui > 0
    /\ budget' = [budget EXCEPT !.gui = @ - 1]
    /\ q_files' = Remove(q_files, quarantine_path)
    /\ q_meta' = q_meta
    /\ hist' = [hist EXCEPT !.gui =
         [op |-> "delete", name |-> quarantine_path, dest |-> NoPath,
          ok |-> TRUE]]
    /\ UNCHANGED <<RUNNING, protection_active, paused, scan_queue, wk, fs,
                   cache, log, clock>>

\* delete_quarantined_file(quarantine_path): payload and sidecar are
\* unlinked when they exist
delete_quarantined_file(quarantine_path) ==
    /\ budget.gui > 0
    /\ budget' = [budget EXCEPT !.gui = @ - 1]
    /\ q_files' = Remove(q_files, quarantine_path)
    /\ q_meta' = Remove(q_meta, quarantine_path)
    /\ hist' = [hist EXCEPT !.gui =
         [op |-> "delete", name |-> quarantine_path, dest |-> NoPath,
          ok |-> TRUE]]
    /\ UNCHANGED <<RUNNING, protection_active, paused, scan_queue, wk, fs,
                   cache, log, clock>>

\* quarantine paths the presentation layer can hold: listed by
\* get_quarantined_files now or earlier
KnownNames == DOMAIN q_files \cup {m.name : m \in hist.moves}

----------------------------------------------------------------------------
(* Environment *)

\* another program writes a watched file
EnvWrite(p, c) ==
    /\ budget.writes > 0
    /\ fs[p] # c
    /\ fs' = [fs EXCEPT ![p] = c]
    /\ budget' = [budget EXCEPT !.writes = @ - 1]
    /\ UNCHANGED <<RUNNING, protection_active, paused, scan_queue, wk, cache,
                   log, q_files, q_meta, clock, hist>>

\* time passes
Tick ==
    /\ clock < MaxClock
    /\ clock' = clock + 1
    /\ UNCHANGED <<RUNNING, protection_active, paused, scan_queue, wk, fs,
                   cache, log, q_files, q_meta, budget, hist>>

----------------------------------------------------------------------------
(* Specification *)

WorkerStep(w) ==
    \/ worker_running(w)
    \/ worker_should_pause(w)
    \/ worker_get(w)
    \/ scan_compute_hash(w)
    \/ scan_get_cached_verdict(w)
    \/ scan_decide(w)
    \/ scan_store_verdict(w)
    \/ scan_log_decision(w)
    \/ scan_quarantine_meta(w)
    \/ scan_quarantine_move(w)
    \/ scan_log_quarantine(w)

Budget(e, w, t, g) == [events |-> e, writes |-> w, toggles |-> t, gui |-> g]

AllClean == [p \in Paths |-> "clean"]

OnePacked == [p \in Paths |-> IF p.dir = Downloads THEN "packed" ELSE "clean"]

\* worker pool, watcher and protection switch
PoolInit == InitWith(OnePacked, Budget(PoolEvents, 0, PoolToggles, 0))

PoolNext ==
    \/ \E w \in Workers : WorkerStep(w)
    \/ \E d \in BOOLEAN, p \in Paths \cup OtherPaths : on_event(d, p)
    \/ start_protection
    \/ stop_protection

SpecPool == PoolInit /\ [][PoolNext]_vars

\* scans racing with writes to the scanned files
ScanInit == InitWith(AllClean, Budget(ScanEvents, ScanWrites, 0, 0))

ScanNext ==
    \/ \E w \in Workers : WorkerStep(w)
    \/ \E d \in BOOLEAN, p \in Paths \cup OtherPaths : on_event(d, p)
    \/ \E p \in Paths, c \in Contents : EnvWrite(p, c)

SpecScan == ScanInit /\ [][ScanNext]_vars

\* scans, the quarantine store and the presentation layer's operations on it
StoreInit == InitWith(OnePacked, Budget(StoreEvents, 0, 0, StoreGuiOps))

StoreNext ==
    \/ \E w \in Workers : WorkerStep(w)
    \/ \E d \in BOOLEAN, p \in Paths \cup OtherPaths : on_event(d, p)
    \/ \E n \in KnownNames, o \in Paths \cup {NoPath} :
          restore_file_from_quarantine(n, o)
    \/ \E n \in KnownNames : delete_quarantined_file(n)
    \/ Tick

SpecStore == StoreInit /\ [][StoreNext]_vars

\* scans and the quarantine store alone, as the clock advances
QuarInit == InitWith(OnePacked, Budget(StoreEvents, 0, 0, 0))

QuarNext ==
    \/ \E w \in Workers : WorkerStep(w)
    \/ \E d \in BOOLEAN, p \in Paths \cup OtherPaths : on_event(d, p)
    \/ Tick

SpecQuar == QuarInit /\ [][QuarNext]_vars

\* the worker pool alone, on files that make process_file raise; the
\* threads are scheduled again and again, and the governor does not refuse
\* for ever
NotPEAndPacked ==
    [p \in Paths |-> IF p.dir = Downloads THEN "notpe" ELSE "packed"]

LiveInit == InitWith(NotPEAndPacked, Budget(LiveEvents, 0, 0, 0))

LiveNext ==
    \/ \E w \in Workers : WorkerStep(w)
    \/ \E d \in BOOLEAN, p \in Paths \cup OtherPaths : on_event(d, p)

\* should_pause() returned False
GovernorAllows(w) == worker_should_pause(w) /\ wk'[w].pc = "get"

LiveFairness ==
    \A w \in Workers :
       /\ WF_vars(WorkerStep(w))
       /\ SF_vars(GovernorAllows(w))

SpecLive == LiveInit /\ [][LiveNext]_vars /\ LiveFairness

\* two files of the same name and the same packed bytes, one in each
\* watched directory
AllPacked == [p \in Paths |-> "packed"]

TwinInit == InitWith(AllPacked, Budget(TwinEvents, 0, 0, 0))

TwinNext ==
    \/ \E w \in Workers : WorkerStep(w)
    \/ \E d \in BOOLEAN, p \in Paths \cup OtherPaths : on_event(d, p)
    \/ Tick

SpecTwin == TwinInit /\ [][TwinNext]_vars

\* the watcher on files and directories whose names differ in extension and
\* in its case
WatchedExecutables ==
    Paths \cup {MkPath(Downloads, "b", ".EXE"), MkPath(Desktop, "c", ".Dll")}

WatchedOthers ==
    OtherPaths \cup {MkPath(Downloads, "d", ".TXT"), MkPath(Downloads, "e", ""),
                     MkPath(Desktop, "exe", ".bin")}

WatchFiles ==
    [p \in WatchedExecutables |-> IF p.ext = ".exe" /\ p.dir = Downloads
                                  THEN "packed" ELSE "clean"]

WatchInit == InitWith(WatchFiles, Budget(WatchEvents, 0, 0, 0))

WatchNext ==
    \/ \E w \in Workers : WorkerStep(w)
    \/ \E k \in EventTypes, d \in BOOLEAN,
          p \in WatchedExecutables \cup WatchedOthers : dispatch(k, d, p)

SpecWatch == WatchInit /\ [][WatchNext]_vars

\* samples at and around the four thresholds
GovSamples == {0, 59, 60, 61, 79, 80, 81, 100}

\* the ResourceController alone, called with any samples in any order
GovInit ==
    /\ RUNNING = TRUE
    /\ protection_active = FALSE
    /\ paused = FALSE
    /\ scan_queue = <<>>
    /\ wk = [w \in Workers |-> Idle]
    /\ fs = AllClean
    /\ cache = {}
    /\ log = <<>>
    /\ q_files = EmptyFn
    /\ q_meta = EmptyFn
    /\ clock = 0
    /\ budget = Budget(0, 0, 0, 0)
    /\ hist = [call |-> None, cpu |-> 0, mem |-> 0, result |-> FALSE,
               was_paused |-> FALSE]

\* controller.should_pause() with samples cpu, mem
call_should_pause(cpu, mem) ==
    /\ paused' = IF should_pause_result(cpu, mem) THEN TRUE ELSE paused
    /\ hist' = [call |-> "should_pause", cpu |-> cpu, mem |-> mem,
                result |-> should_pause_result(cpu, mem),
                was_paused |-> paused]
    /\ UNCHANGED <<RUNNING, protection_active, scan_queue, wk, fs, cache,
                   log, q_files, q_meta, clock, budget>>

\* controller.should_resume() with samples cpu, mem
call_should_resume(cpu, mem) ==
    /\ paused' = IF should_resume_result(cpu, mem) THEN FALSE ELSE paused
    /\ hist' = [call |-> "should_resume", cpu |-> cpu, mem |-> mem,
                result |-> should_resume_result(cpu, mem),
                was_paused |-> paused]
    /\ UNCHANGED <<RUNNING, protection_active, scan_queue, wk, fs, cache,
                   log, q_files, q_meta, clock, budget>>

GovNext ==
    \/ \E cpu \in GovSamples, mem \in GovSamples : call_should_pause(cpu, mem)
    \/ \E cpu \in GovSamples, mem \in GovSamples : call_should_resume(cpu, mem)

SpecGov == GovInit /\ [][GovNext]_vars

\* BackendController.scan_single_file(filepath): a path that does not exist
\* is refused with scan_error, any other is put on BackendController's own
\* unbounded queue (held by scan_queue in SpecGui)
scan_single_file(filepath) ==
    /\ IF fs[filepath] = None
       THEN /\ budget.gui > 0
            /\ budget' = [budget EXCEPT !.gui = @ - 1]
            /\ hist' = [hist EXCEPT !.gui =
                  [op |-> "scan", name |-> NoName, dest |-> filepath,
                   ok |-> FALSE]]
            /\ UNCHANGED scan_queue
       ELSE /\ budget.events > 0
            /\ budget' = [budget EXCEPT !.events = @ - 1]
            /\ scan_queue' = Append(scan_queue, filepath)
            /\ hist' = [hist EXCEPT !.gui =
                  [op |-> "scan", name |-> NoName, dest |-> filepath,
                   ok |-> TRUE]]
    /\ UNCHANGED <<RUNNING, protection_active, paused, wk, fs, cache, log,
                   q_files, q_meta, clock>>

\* a scan worker that waits while RUNNING is cleared
scan_worker_gated(w) ==
    /\ wk[w].pc = "running"
    /\ IF scan_queue # <<>> /\ RUNNING
       THEN /\ scan_queue' = Tail(scan_queue)
            /\ Set(w, [wk[w] EXCEPT !.pc = "compute_hash",
                                    !.path = Head(scan_queue),
                                    !.scan = hist.nscans + 1])
            /\ hist' = [hist EXCEPT !.nscans = @ + 1]
       ELSE UNCHANGED <<scan_queue, wk, hist>>
    /\ UNCHANGED <<RUNNING, protection_active, paused, fs, cache,
                   log, q_files, q_meta, clock, budget>>

\* BackendController._scan_worker, lines 62-66: get(timeout=1), on any
\* exception continue; else _process_scan, whose try/except catches what
\* process_file raises, and task_done
scan_worker(w) ==
    /\ wk[w].pc = "running"
    /\ IF scan_queue # <<>>
       THEN /\ scan_queue' = Tail(scan_queue)
            /\ Set(w, [wk[w] EXCEPT !.pc = "compute_hash",
                                    !.path = Head(scan_queue),
                                    !.scan = hist.nscans + 1])
            /\ hist' = [hist EXCEPT !.nscans = @ + 1]
       ELSE UNCHANGED <<scan_queue, wk, hist>>
    /\ UNCHANGED <<RUNNING, protection_active, paused, fs, cache,
                   log, q_files, q_meta, clock, budget>>

\* one step of a scan worker thread of the BackendController
ScanWorkerStep(w) ==
    \/ scan_worker(w)
    \/ scan_compute_hash(w)
    \/ scan_get_cached_verdict(w)
    \/ scan_decide(w)
    \/ scan_store_verdict(w)
    \/ scan_log_decision(w)
    \/ scan_quarantine_meta(w)
    \/ scan_quarantine_move(w)
    \/ scan_log_quarantine(w)

\* the BackendController with its scan workers (_start_scan_workers(2)),
\* single-scan requests and the protection switch
GuiInit ==
    InitWith(NotPEAndPacked, Budget(GuiRequests, 0, GuiToggles, GuiRefusals))

GuiNext ==
    \/ \E w \in Workers : ScanWorkerStep(w)
    \/ \E p \in Paths : scan_single_file(p)
    \/ start_protection
    \/ stop_protection

\* the scan workers are threads that loop for ever
GuiFairness == \A w \in Workers : WF_vars(ScanWorkerStep(w))

SpecGui == GuiInit /\ [][GuiNext]_vars /\ GuiFairness

\* restores from quarantine while the pipeline scans what is restored
RestoreInit ==
    InitWith(OnePacked, Budget(RestoreEvents, 0, 0, RestoreGuiOps))

RestoreNext ==
    \/ \E w \in Workers : WorkerStep(w)
    \/ \E d \in BOOLEAN, p \in Paths \cup OtherPaths : on_event(d, p)
    \/ \E n \in KnownNames, o \in Paths \cup {NoPath} :
          restore_file_from_quarantine(n, o)

SpecRestore == RestoreInit /\ [][RestoreNext]_vars

\* email_monitor line 16: the suffixes of an attachment worth scanning
ATTACHMENT_SUFFIXES == {".exe", ".zip", ".pdf", ".docx"}

\* the entries of WATCH_DIR (~/Downloads) in the model
MailPaths == {MkPath(Downloads, "a", ".exe"), MkPath(Downloads, "b", ".PDF"),
              MkPath(Downloads, "notes", ".txt")}

\* f.lower().endswith((".exe", ".zip", ".pdf", ".docx"))
is_attachment(p) == Lower(splitext(p)) \in ATTACHMENT_SUFFIXES

\* os.listdir(WATCH_DIR): the entries of the directory, in an order the
\* file system chooses
Listings(f) ==
    LET present == {p \in DOMAIN f : f[p] # None}
    IN  {l \in [1..Cardinality(present) -> present] :
            \A i, j \in DOMAIN l : l[i] = l[j] => i = j}

\* process_file(path) run by one thread from its first line to its last:
\* the state it leaves and whether it raised
process_file(f, c, l, qf, qm, now, path) ==
    IF f[path] = None
    THEN [raised |-> TRUE, fs |-> f, cache |-> c, log |-> l,
          q_files |-> qf, q_meta |-> qm]
    ELSE LET file_hash == compute_digest(f[path])
             rows == {r \in c : r.hash = file_hash}
             cached == IF rows = {} THEN NoRow
                       ELSE (CHOOSE r \in rows : TRUE).verdict
             d == decide(f, path, cached)
             n == quarantine_name(now, file_hash, path)
         IN  IF d.err # None
             THEN [raised |-> TRUE, fs |-> f, cache |-> c, log |-> l,
                   q_files |-> qf, q_meta |-> qm]
             ELSE IF quarantines(d.verdict)
             THEN [raised |-> FALSE,
                   fs |-> [f EXCEPT ![path] = None],
                   cache |-> store_verdict(c, file_hash,
                                           VerdictInt(d.verdict)),
                   log |-> log_quarantine(
                             log_decision(l, path, file_hash, d.source,
                                          d.verdict, 0),
                             path, n, 0),
                   q_files |-> (n :> f[path]) @@ qf,
                   q_meta |-> (n :> metadata(now, file_hash, path)) @@ qm]
             ELSE [raised |-> FALSE, fs |-> f,
                   cache |-> store_verdict(c, file_hash,
                                           VerdictInt(d.verdict)),
                   log |-> log_decision(l, path, file_hash, d.source,
                                        d.verdict, 0),
                   q_files |-> qf, q_meta |-> qm]

\* monitor_email_attachments alone: seen = set(), any files in WATCH_DIR
MailInit ==
    /\ RUNNING = TRUE
    /\ protection_active = FALSE
    /\ paused = FALSE
    /\ scan_queue = <<>>
    /\ wk = [w \in Workers |-> Idle]
    /\ fs \in [MailPaths -> Contents \cup {None}]
    /\ cache = {}
    /\ log = <<>>
    /\ q_files = EmptyFn
    /\ q_meta = EmptyFn
    /\ clock = 0
    /\ budget = Budget(0, 0, 0, 0)
    /\ hist = [pc |-> "listdir", seen |-> {}, files |-> <<>>, i |-> 1,
               passed |-> {}, raised |-> {}]

\* line 12: files = os.listdir(WATCH_DIR)
mail_listdir ==
    /\ hist.pc = "listdir"
    /\ \E l \in Listings(fs) :
          hist' = [hist EXCEPT !.pc = "for", !.files = l, !.i = 1]
    /\ UNCHANGED <<RUNNING, protection_active, paused, scan_queue, wk, fs,
                   cache, log, q_files, q_meta, clock, budget>>

\* lines 13-20, one iteration of "for f in files": an exception of
\* process_file leaves the loop for the except clause of line 19
mail_file ==
    /\ hist.pc = "for"
    /\ hist.i <= Len(hist.files)
    /\ LET path == hist.files[hist.i]
       IN  IF path \notin hist.seen /\ fs[path] # None /\ is_attachment(path)
           THEN LET r == process_file(fs, cache, log, q_files, q_meta,
                                      clock, path)
                IN  /\ fs' = r.fs
                    /\ cache' = r.cache
                    /\ log' = r.log
                    /\ q_files' = r.q_files
                    /\ q_meta' = r.q_meta
                    /\ hist' = [hist EXCEPT
                          !.passed = @ \cup {path},
                          !.raised = IF r.raised THEN @ \cup {path} ELSE @,
                          !.seen = IF r.raised THEN @ ELSE @ \cup {path},
                          !.i = IF r.raised THEN @ ELSE @ + 1,
                          !.pc = IF r.raised THEN "sleep" ELSE @]
           ELSE /\ hist' = [hist EXCEPT !.i = @ + 1]
                /\ UNCHANGED <<fs, cache, log, q_files, q_meta>>
    /\ UNCHANGED <<RUNNING, protection_active, paused, scan_queue, wk,
                   clock, budget>>

\* the for loop is through
mail_done ==
    /\ hist.pc = "for"
    /\ hist.i > Len(hist.files)
    /\ hist' = [hist EXCEPT !.pc = "sleep"]
    /\ UNCHANGED <<RUNNING, protection_active, paused, scan_queue, wk, fs,
                   cache, log, q_files, q_meta, clock, budget>>

\* line 22: time.sleep(10), then the next round
mail_sleep ==
    /\ hist.pc = "sleep"
    /\ hist' = [hist EXCEPT !.pc = "listdir"]
    /\ UNCHANGED <<RUNNING, protection_active, paused, scan_queue, wk, fs,
                   cache, log, q_files, q_meta, clock, budget>>

MailNext == mail_listdir \/ mail_file \/ mail_done \/ mail_sleep

\* the monitor thread loops for ever
SpecMail == MailInit /\ [][MailNext]_vars /\ WF_vars(MailNext)

\* the threads that write logs/decisions.log: the workers and, numbered 0,
\* the thread of the presentation layer
Loggers == 0..NumWorkers

\* the log functions a thread calls: process_file calls log_decision and,
\* for a MALICIOUS verdict, log_quarantine after it; the presentation layer
\* calls log_restore
LogKinds(t) ==
    IF t = 0 THEN {"restore"}
    ELSE IF hist.last[t] = "decision" THEN {"decision", "quarantine"}
    ELSE {"decision"}

\* datetime.utcnow().isoformat(...) as the instant it denotes, in ticks:
\* log_decision passes timespec="seconds", which drops the fraction
isoformat(kind, now) ==
    IF kind = "decision" THEN now - (now % TicksPerSecond) ELSE now

NoRecord == [action |-> None, ts |-> 0, by |-> 0]

\* the log functions alone, called by the workers and the presentation
\* layer while time passes
LogInit ==
    /\ RUNNING = TRUE
    /\ protection_active = FALSE
    /\ paused = FALSE
    /\ scan_queue = <<>>
    /\ wk = [w \in Workers |-> Idle]
    /\ fs = AllClean
    /\ cache = {}
    /\ log = <<>>
    /\ q_files = EmptyFn
    /\ q_meta = EmptyFn
    /\ clock = 0
    /\ budget = Budget(0, 0, 0, 0)
    /\ hist = [record |-> [t \in Loggers |-> NoRecord],
               last |-> [t \in Loggers |-> None],
               calls |-> 0]

\* the first statement of a log function: record = {"ts": utcnow(), ...}
logger_record(t, kind) ==
    /\ hist.record[t] = NoRecord
    /\ hist.calls < LogCalls
    /\ hist' = [hist EXCEPT
          !.record[t] = [action |-> kind, ts |-> isoformat(kind, clock),
                         by |-> t],
          !.calls = @ + 1]
    /\ UNCHANGED <<RUNNING, protection_active, paused, scan_queue, wk, fs,
                   cache, log, q_files, q_meta, clock, budget>>

\* the second statement: with open(LOG_FILE, "a") as f: f.write(...)
logger_write(t) ==
    /\ hist.record[t] # NoRecord
    /\ log' = Append(log, hist.record[t])
    /\ hist' = [hist EXCEPT !.record[t] = NoRecord,
                            !.last[t] = hist.record[t].action]
    /\ UNCHANGED <<RUNNING, protection_active, paused, scan_queue, wk, fs,
                   cache, q_files, q_meta, clock, budget>>

\* time passes
LogTick ==
    /\ clock < MaxTick
    /\ clock' = clock + 1
    /\ UNCHANGED <<RUNNING, protection_active, paused, scan_queue, wk, fs,
                   cache, log, q_files, q_meta, budget, hist>>

LogNext ==
    \/ \E t \in Loggers : \E kind \in LogKinds(t) : logger_record(t, kind)
    \/ \E t \in Loggers : logger_write(t)
    \/ LogTick

SpecLog == LogInit /\ [][LogNext]_vars

\* Python's s[start:] on a list: a negative start counts from the end, and
\* both ends are clipped to the list
slice_from(s, start) ==
    LET len == Len(s)
        b == IF start < 0
             THEN (IF len + start < 0 THEN 0 ELSE len + start)
             ELSE (IF start > len THEN len ELSE start)
    IN  SubSeq(s, b + 1, len)

\* log_reader.read_last_lines(n): [] when the file does not exist, else
\* f.readlines()[-n:]
read_last_lines(exists, lines, n) ==
    IF ~exists THEN <<>> ELSE slice_from(lines, 0 - n)

\* the lines a log function writes, by the function that wrote them
LogLines == {"decision", "quarantine", "restore"}

\* the audit log and its reader: the file is absent or empty at first
TailInit ==
    /\ RUNNING = TRUE
    /\ protection_active = FALSE
    /\ paused = FALSE
    /\ scan_queue = <<>>
    /\ wk = [w \in Workers |-> Idle]
    /\ fs = AllClean
    /\ cache = {}
    /\ log = <<>>
    /\ q_files = EmptyFn
    /\ q_meta = EmptyFn
    /\ clock = 0
    /\ budget = Budget(0, 0, 0, 0)
    /\ \E e \in BOOLEAN :
          hist = [exists |-> e, called |-> FALSE, n |-> 0, lines |-> <<>>,
                  result |-> <<>>]

\* a log function appends its line; open(LOG_FILE, "a") creates the file
tail_append(line) ==
    /\ Len(log) < MaxLines
    /\ log' = Append(log, line)
    /\ hist' = [hist EXCEPT !.exists = TRUE]
    /\ UNCHANGED <<RUNNING, protection_active, paused, scan_queue, wk, fs,
                   cache, q_files, q_meta, clock, budget>>

\* a reader calls read_last_lines(n)
call_read_last_lines(n) ==
    /\ hist' = [hist EXCEPT
          !.called = TRUE,
          !.n = n,
          !.lines = log,
          !.result = read_last_lines(hist.exists, log, n)]
    /\ UNCHANGED <<RUNNING, protection_active, paused, scan_queue, wk, fs,
                   cache, log, q_files, q_meta, clock, budget>>

TailNext ==
    \/ \E line \in LogLines : tail_append(line)
    \/ \E n \in 0..MaxTail : call_read_last_lines(n)

SpecTail == TailInit /\ [][TailNext]_vars

\* feature vectors around the thresholds of the rules, entropies scaled
\* by 10; Scenario A's vector is among them
FeatureVectors ==
    {0, 500} \X {0, 1, 2, 3, 10, 11} \X {0, 21} \X {30, 70, 71, 80}
       \X {0, 5} \X {0, 40} \X {0, 1} \X {0, 4096} \X {0, 20000}
       \X {0, 5000}

\* the decision functions alone: a vector comes out of extract_features, no
\* cache row exists
RulesInit ==
    /\ RUNNING = TRUE
    /\ protection_active = FALSE
    /\ paused = FALSE
    /\ scan_queue = <<>>
    /\ wk = [w \in Workers |-> Idle]
    /\ fs = AllClean
    /\ cache = {}
    /\ log = <<>>
    /\ q_files = EmptyFn
    /\ q_meta = EmptyFn
    /\ clock = 0
    /\ budget = Budget(0, 0, 0, 0)
    /\ \E v \in FeatureVectors :
          hist = [features |-> v, decided |-> FALSE, rule_verdict |-> None,
                  decision |-> [err |-> None], quarantines |-> FALSE]

\* decide(path, None) from line 10 on, then process_file's line 28
rules_decide ==
    /\ ~hist.decided
    /\ LET d == decide_features(hist.features)
       IN  hist' = [hist EXCEPT
              !.decided = TRUE,
              !.rule_verdict = rule_based_static_decision(hist.features),
              !.decision = d,
              !.quarantines = quarantines(d.verdict)]
    /\ UNCHANGED <<RUNNING, protection_active, paused, scan_queue, wk, fs,
                   cache, log, q_files, q_meta, clock, budget>>

RulesNext == rules_decide

SpecRules == RulesInit /\ [][RulesNext]_vars

----------------------------------------------------------------------------
(* Claims *)

IsPrefix(a, b) == Len(a) <= Len(b) /\ SubSeq(b, 1, Len(a)) = a

\* a worker's get() returns an item in this step
Dequeues(w) == wk[w].pc = "get" /\ wk'[w].pc = "compute_hash"

\* C1: in every interleaving of the workers with the protection switch, no
\* worker takes an item off scan_queue while RUNNING is cleared
C1_NoDequeueWhilePaused ==
    [][(\E w \in Workers : Dequeues(w)) => RUNNING]_vars

\* C2: when RUNNING is set again after a pause, every item that was queued
\* when the pause began is still queued, in order, at the head of scan_queue
C2_PausedItemsKept ==
    [][(~RUNNING /\ RUNNING') => IsPrefix(hist.atPause, scan_queue)]_vars

\* C3: scan_queue never holds more than maxsize items; while it is full an
\* arriving event is taken at once (the handler is enabled, it does not
\* block) and leaves the queue as it was: the only change a full queue
\* undergoes is a worker's dequeue of its head
C3_Backpressure ==
    /\ [](Len(scan_queue) <= MaxQueue)
    /\ [](Len(scan_queue) >= MaxQueue =>
            \A p \in Paths : ENABLED on_event(FALSE, p))
    /\ [][Len(scan_queue) >= MaxQueue =>
            scan_queue' \in {scan_queue, Tail(scan_queue)}]_vars

\* C3 witness: an event found the queue full and was dropped
C3_Witness == hist.dropped /\ Len(scan_queue) = MaxQueue

\* the worker has its decision in hand (process_file lines 19-32)
Decided(w) ==
    wk[w].pc \in {"store_verdict", "log_decision", "quarantine_meta",
                  "quarantine_move", "log_quarantine"}

\* C4: decide with a cached verdict returns that verdict with source cache
\* without calling extract_features, whatever the file at the path holds
\* (any content, or no file at all)
C4_CacheWins ==
    /\ \A w \in Workers :
          (wk[w].pc = "store_verdict" /\ wk[w].cached # NoRow) =>
             /\ wk[w].cached = 1 => wk[w].verdict = MALICIOUS
             /\ wk[w].cached = 0 => wk[w].verdict = BENIGN
             /\ wk[w].source = "cache"
             /\ ~wk[w].extracted
    /\ \A c \in Contents \cup {None}, p \in Paths :
          LET f == [q \in Paths |-> c]
          IN  /\ decide(f, p, 1) = [err |-> None, verdict |-> MALICIOUS,
                                    source |-> "cache", extracted |-> FALSE]
              /\ decide(f, p, 0) = [err |-> None, verdict |-> BENIGN,
                                    source |-> "cache", extracted |-> FALSE]

\* C4 witness: a scan was served BENIGN from the cache although the file now
\* at its path matches rule 1
C4_Witness ==
    \E w \in Workers :
       /\ wk[w].pc = "store_verdict"
       /\ wk[w].cached = 0
       /\ wk[w].source = "cache"
       /\ fs[wk[w].path] = "packed"

\* C5: a scan that starts after a scan of the same identity has returned
\* verdict v gets v from the cache
C5_Idempotent ==
    \A w \in Workers :
       (Decided(w) /\ wk[w].prior # {}) =>
          /\ wk[w].source = "cache"
          /\ \A v \in wk[w].prior : VerdictInt(wk[w].verdict) = v

DecisionEvents(scan) ==
    {i \in DOMAIN log : log[i].action = "decision" /\ log[i].scan = scan}

EarlyStages == {"compute_hash", "get_cached_verdict", "decide", "store_verdict"}

\* C9: a process_file call that returned a verdict appended exactly one
\* Decision event, one that raised before log_decision appended none
C9_OneDecisionPerScan ==
    \A s \in DOMAIN hist.outcomes :
       /\ hist.outcomes[s] = "return" => Cardinality(DecisionEvents(s)) = 1
       /\ hist.outcomes[s] \in EarlyStages => DecisionEvents(s) = {}

\* C9 witness: scans have returned from the cache and from the rules, and
\* scans have failed at hashing and at extraction
C9_Witness ==
    /\ \E s \in DOMAIN hist.outcomes : hist.outcomes[s] = "return"
    /\ \E s \in DOMAIN hist.outcomes : hist.outcomes[s] = "decide"
    /\ \E s \in DOMAIN hist.outcomes : hist.outcomes[s] = "compute_hash"

\* quarantine_file is between its sidecar write and its move for name n
InQuarantineFile(n) ==
    \E w \in Workers : wk[w].pc = "quarantine_move" /\ wk[w].q_name = n

\* C6: whenever no quarantine, restore or delete is under way on a
\* quarantine name, the name has both its payload and its sidecar or neither
C6_PayloadAndMetaPaired ==
    \A n \in DOMAIN q_files \cup DOMAIN q_meta :
       ~InQuarantineFile(n) => (n \in DOMAIN q_files <=> n \in DOMAIN q_meta)

\* this step is a restore_file_from_quarantine call
RestoreStep == budget'.gui < budget.gui /\ hist'.gui.op = "restore"

\* C7: a successful restore of a quarantined file to the location it was
\* moved from puts the bytes that were moved back there and leaves neither
\* the payload nor the sidecar in the quarantine directory
C7_RoundTrip ==
    [][(RestoreStep /\ hist'.gui.ok) =>
         LET n == hist'.gui.name
             d == hist'.gui.dest
         IN  /\ n \notin DOMAIN q_files'
             /\ n \notin DOMAIN q_meta'
             /\ \A m \in hist.moves :
                   (m.name = n /\ m.path = d) => fs'[d] = m.content]_vars

\* C7 witness: a file quarantined by a scan has been restored to its
\* original path
C7_Witness ==
    /\ hist.gui.op = "restore"
    /\ hist.gui.ok
    /\ \E m \in hist.moves :
          /\ m.name = hist.gui.name
          /\ m.path = hist.gui.dest
          /\ fs[m.path] = m.content
          /\ m.name \notin DOMAIN q_files \cup DOMAIN q_meta

\* C8: a restore whose destination is occupied or whose quarantine entry is
\* missing fails, and leaves the destination, the payload, the sidecar and
\* the log as they were
C8_RestoreFailsOnCollision ==
    [][RestoreStep =>
         LET n == hist'.gui.name
             d == hist'.gui.dest
         IN  (fs[d] # None \/ n \notin DOMAIN q_files) =>
                /\ ~hist'.gui.ok
                /\ fs' = fs
                /\ q_files' = q_files
                /\ q_meta' = q_meta
                /\ log' = log]_vars

Finishes(s) == s \in DOMAIN hist'.outcomes /\ s \notin DOMAIN hist.outcomes

\* C11: a scan of a path dequeued after an earlier scan quarantined that
\* path and returned decides from the cache (one Decision event, source
\* cache) and moves nothing into quarantine
C11_SecondScanFromCache ==
    [][\A s \in hist.seq : Finishes(s) =>
          /\ \E i \in DOMAIN log' :
                /\ log'[i].action = "decision"
                /\ log'[i].scan = s
                /\ log'[i].source = "cache"
          /\ \A m \in hist'.moves : m.scan # s]_vars

\* C11 (amended): a scan of a path dequeued after an earlier scan quarantined
\* that path and returned never gets past compute_hash: it raises there,
\* appends no Decision or Quarantine event, leaves the cache and the
\* quarantine directory as they are, and the digest the first scan stored
\* stays MALICIOUS in the cache
C11_SecondScanFailsAtHash ==
    /\ [](\A w \in Workers :
            wk[w].scan \in hist.seq => wk[w].pc = "compute_hash")
    /\ [][\A s \in hist.seq : Finishes(s) =>
            /\ hist'.outcomes[s] = "compute_hash"
            /\ log' = log
            /\ cache' = cache
            /\ q_files' = q_files
            /\ q_meta' = q_meta
            /\ \A m \in hist.moves : get_cached_verdict(m.name[2]) = 1]_vars

\* C11 witness: the second scan of a quarantined path has ended at
\* compute_hash, the payload of the first scan still in quarantine
C11_Witness ==
    \E s \in hist.seq :
       /\ s \in DOMAIN hist.outcomes
       /\ hist.outcomes[s] = "compute_hash"
       /\ \E m \in hist.moves : m.scan < s /\ m.name \in DOMAIN q_files

QuarantineEvents(scans) ==
    {i \in DOMAIN log : log[i].action = "quarantine" /\ log[i].scan \in scans}

\* C12: when two scans of the same path have both called quarantine_file
\* and both have ended, exactly one of them moved the file and logged a
\* Quarantine event, the other ended with the error of quarantine_file, and
\* the quarantine directory holds the one payload and no sidecar but that
\* of the scan that moved the file
C12_OneQuarantineOfTwo ==
    \A a, b \in hist.attempts :
       (/\ a.scan # b.scan
        /\ a.path = b.path
        /\ {a.scan, b.scan} \subseteq DOMAIN hist.outcomes
        /\ \E m \in hist.moves : m.scan = a.scan) =>
          /\ \A m \in hist.moves : m.scan # b.scan
          /\ Cardinality(QuarantineEvents({a.scan, b.scan})) = 1
          /\ hist.outcomes[a.scan] = "return"
          /\ hist.outcomes[b.scan] = "quarantine_file"
          /\ a.name \in DOMAIN q_files
          /\ b.name \in DOMAIN q_files \cup DOMAIN q_meta => b.name = a.name

\* C13: a process_file call that raises leaves its worker at the top of
\* the loop, and every item enqueued after a call has raised is dequeued
\* (RUNNING stays set, the governor allows a dequeue again and again)
C13_ErrorsDoNotStopWorkers ==
    /\ [][\A w \in Workers : Finishes(wk[w].scan) => wk'[w] = Idle]_vars
    /\ \A n \in 1..LiveEvents : (n \in hist.late) ~> (hist.nscans >= n)

\* C13 witness: calls have raised at extraction and at quarantine, and an
\* item enqueued after a call had raised has been processed
C13_Witness ==
    /\ \E s \in DOMAIN hist.outcomes : hist.outcomes[s] = "decide"
    /\ \E n \in hist.late : n \in DOMAIN hist.outcomes

\* C14: when extract_features cannot parse the file (PEFormatError) and the
\* cache holds no verdict, decide yields BENIGN with source default and the
\* scan goes on to store and log that decision
C14_FormatErrorFallsThrough ==
    [][\A w \in Workers :
          (/\ wk[w].pc = "decide"
           /\ wk[w].cached = NoRow
           /\ extract_features(fs, wk[w].path).err = "PEFormatError"
           /\ wk'[w] # wk[w]) =>
             /\ wk'[w].pc = "store_verdict"
             /\ wk'[w].verdict = BENIGN
             /\ wk'[w].source = "default"]_vars

\* rule 1 applies to the vector: max_entropy above the threshold, unsigned
Rule1(v) == v[4] > MAX_ENTROPY_THRESHOLD /\ v[7] = 0

\* rule 2 applies to the vector: section_count outside [min, max]
Rule2(v) == v[2] < MIN_SECTION_COUNT \/ v[2] > MAX_SECTION_COUNT

\* C15: for every vector with max_entropy above the threshold and no
\* signature, whatever the other eight fields, the static rules return
\* MALICIOUS and decide without a cached verdict returns MALICIOUS, rules
C15_Rule1Malicious ==
    (hist.decided /\ Rule1(hist.features)) =>
       /\ hist.rule_verdict = MALICIOUS
       /\ hist.decision.err = None
       /\ hist.decision.verdict = MALICIOUS
       /\ hist.decision.source = "rules"

\* C15 witness: a signature-less high-entropy vector with a regular section
\* count has been decided
C15_Witness ==
    /\ hist.decided
    /\ Rule1(hist.features)
    /\ ~Rule2(hist.features)
    /\ hist.features[1] = 0

\* C16: for every vector whose section_count is below the minimum or above
\* the maximum, whatever its entropy and signature, the static rules return
\* MALICIOUS
C16_Rule2Malicious ==
    (hist.decided /\ Rule2(hist.features)) => hist.rule_verdict = MALICIOUS

\* C16 witness: a signed low-entropy vector with too many sections has been
\* decided
C16_Witness ==
    /\ hist.decided
    /\ hist.features[2] > MAX_SECTION_COUNT
    /\ hist.features[4] < MAX_ENTROPY_THRESHOLD
    /\ hist.features[7] = 1

\* C17: for every vector that matches neither rule, decide without a cached
\* verdict returns BENIGN with source default and process_file does not
\* call quarantine_file
C17_DefaultBenign ==
    (hist.decided /\ ~Rule1(hist.features) /\ ~Rule2(hist.features)) =>
       /\ hist.rule_verdict = None
       /\ hist.decision.err = None
       /\ hist.decision.verdict = BENIGN
       /\ hist.decision.source = "default"
       /\ ~hist.quarantines

\* C17 witness: Scenario A's vector has been decided
C17_Witness ==
    /\ hist.decided
    /\ hist.features = <<500, 3, 21, 30, 5, 40, 1, 4096, 20000, 5000>>
    /\ hist.decision.source = "default"

\* C18: a watched file changes or disappears only in the move of a scan of
\* that path whose verdict is MALICIOUS, after the scan stored the verdict
\* in the cache and appended its Decision event; the file goes into the
\* quarantine directory as it was. So a scan with verdict BENIGN leaves the
\* scanned file alone
C18_MoveOnlyAfterMaliciousDecision ==
    [][\A p \in Paths : fs'[p] # fs[p] =>
          \E w \in Workers :
             /\ wk[w].path = p
             /\ wk[w].pc = "quarantine_move"
             /\ wk'[w].pc = "log_quarantine"
             /\ wk[w].verdict = MALICIOUS
             /\ wk[w].stored
             /\ \E i \in DOMAIN log :
                   /\ log[i].action = "decision"
                   /\ log[i].scan = wk[w].scan
                   /\ log[i].verdict = 1
             /\ fs'[p] = None
             /\ q_files'[wk[w].q_name] = fs[p]]_vars

\* C18 witness: a MALICIOUS scan has moved its file and a BENIGN scan has
\* returned, its file still in place
C18_Witness ==
    /\ hist.moves # {}
    /\ \E i \in DOMAIN log, p \in Paths :
          /\ log[i].action = "decision"
          /\ log[i].verdict = 0
          /\ log[i].scan \in DOMAIN hist.outcomes
          /\ hist.outcomes[log[i].scan] = "return"
          /\ fs[p] # None
          /\ log[i].hash = compute_digest(fs[p])

\* C19: while nothing is restored or deleted, a quarantine entry stays as
\* it was created: no quarantine_file call takes the name of an existing
\* entry for another file and rewrites its payload or its sidecar; this for
\* two files of the same name and content quarantined in the same second too
C19_EntriesKept ==
    [][\A n \in DOMAIN q_files :
          /\ n \in DOMAIN q_files'
          /\ q_files'[n] = q_files[n]
          /\ n \in DOMAIN q_meta => (n \in DOMAIN q_meta'
                                       /\ q_meta'[n] = q_meta[n])]_vars

\* this step is a delete_quarantined_file call
DeleteStep == budget'.gui < budget.gui /\ hist'.gui.op = "delete"

\* C20: when delete_quarantined_file returns True, neither the payload nor
\* the sidecar of the deleted name exists, and the payload and sidecar of
\* every other name, the watched files and the log are as they were
C20_DeleteRemovesBoth ==
    [][(DeleteStep /\ hist'.gui.ok) =>
         LET n == hist'.gui.name
         IN  /\ n \notin DOMAIN q_files'
             /\ n \notin DOMAIN q_meta'
             /\ DOMAIN q_files' = DOMAIN q_files \ {n}
             /\ DOMAIN q_meta' = DOMAIN q_meta \ {n}
             /\ \A k \in DOMAIN q_files' : q_files'[k] = q_files[k]
             /\ \A k \in DOMAIN q_meta' : q_meta'[k] = q_meta[k]
             /\ fs' = fs
             /\ log' = log]_vars

\* C20 witness: a quarantined file and its sidecar have been deleted while
\* a sidecar of another name is in the quarantine directory
C20_Witness ==
    /\ hist.gui.op = "delete"
    /\ hist.gui.ok
    /\ \E m \in hist.moves :
          /\ m.name = hist.gui.name
          /\ m.name \notin DOMAIN q_files \cup DOMAIN q_meta
    /\ DOMAIN q_meta # {}

\* C21: every step that writes logs/decisions.log (log_decision,
\* log_quarantine, log_restore) appends exactly one record: the records
\* present before the step are an unchanged prefix of those after it
C21_LogAppendOnly ==
    [][log' # log =>
         /\ Len(log') = Len(log) + 1
         /\ SubSeq(log', 1, Len(log)) = log]_vars

\* C21 witness: Decision, Quarantine and Restore records are in the log
C21_Witness ==
    /\ \E i \in DOMAIN log : log[i].action = "decision"
    /\ \E i \in DOMAIN log : log[i].action = "quarantine"
    /\ \E i \in DOMAIN log : log[i].action = "restore" /\ i > 2

\* the rows of table cache for identity h
Rows(c, h) == {r \in c : r.hash = h}

\* C22: table cache holds at most one row per identity; get_cached_verdict
\* returns the verdict of the latest completed store_verdict for the
\* identity, None when there was none; and a store_verdict for one
\* identity leaves the rows of every other identity as they were, in every
\* interleaving of the workers
C22_CacheLastWriteWins ==
    /\ [](\A h \in Idents : Cardinality(Rows(cache, h)) <= 1)
    /\ [](\A h \in Idents :
            get_cached_verdict(h) =
               IF h \in DOMAIN hist.put THEN hist.put[h] ELSE NoRow)
    /\ [][\A h \in Idents : Rows(cache', h) # Rows(cache, h) =>
            \E w \in Workers : /\ wk[w].pc = "store_verdict"
                                /\ wk'[w].pc = "log_decision"
                                /\ wk[w].file_hash = h]_vars

\* C22 witness: two scans have stored different verdicts for one identity,
\* the table has the later one, and another identity has its row
C22_Witness ==
    \E i, j \in DOMAIN log, h \in Idents :
       /\ i < j
       /\ log[i].action = "decision"
       /\ log[j].action = "decision"
       /\ log[i].hash = log[j].hash
       /\ log[i].verdict # log[j].verdict
       /\ get_cached_verdict(log[j].hash) = log[j].verdict
       /\ h # log[j].hash
       /\ get_cached_verdict(h) # NoRow

\* the allow-list, in every spelling of the model
AllowListAnyCase == {".exe", ".EXE", ".Exe", ".dll", ".DLL", ".Dll"}

\* a create or modify event on a regular file with an allowed extension
Eligible(k, d, p) ==
    /\ k \in {"created", "modified"}
    /\ ~d
    /\ p.ext \in AllowListAnyCase

\* C23: for every event (kind, directory flag, path): when it is a create
\* or modify event on a non-directory whose extension is in the allow-list
\* whatever its case, the watcher can put the path at the tail of the queue
\* (the queue has room) and does nothing else to the queue; for every other
\* event the watcher leaves the queue as it is
C23_WatcherFilter ==
    \A k \in EventTypes, d \in BOOLEAN,
       p \in WatchedExecutables \cup WatchedOthers :
       IF Eligible(k, d, p)
       THEN /\ (Len(scan_queue) < MaxQueue /\ budget.events > 0) =>
                  ENABLED (dispatch(k, d, p)
                             /\ scan_queue' = Append(scan_queue, p))
            /\ ~ENABLED (dispatch(k, d, p)
                           /\ scan_queue' \notin
                                 {scan_queue, Append(scan_queue, p)})
            /\ Len(scan_queue) < MaxQueue =>
                  ~ENABLED (dispatch(k, d, p) /\ scan_queue' = scan_queue)
       ELSE ~ENABLED (dispatch(k, d, p) /\ scan_queue' # scan_queue)

\* C23 witness: paths with upper-case and mixed-case extensions are queued
C23_Witness ==
    /\ Len(scan_queue) = 2
    /\ scan_queue[1].ext = ".EXE"
    /\ scan_queue[2].ext = ".Dll"

\* C24: when compute_hash raises because no file is at the path, the scan
\* ends there: the cache, the audit log, the quarantine directory and the
\* watched files are as before, and the worker is back at the top of its
\* loop, ready for the next item
C24_MissingFileAborts ==
    [][\A w \in Workers :
          (/\ wk[w].pc = "compute_hash"
           /\ fs[wk[w].path] = None
           /\ wk'[w] # wk[w]) =>
             /\ cache' = cache
             /\ log' = log
             /\ q_files' = q_files
             /\ q_meta' = q_meta
             /\ fs' = fs
             /\ scan_queue' = scan_queue
             /\ wk'[w] = Idle
             /\ hist'.outcomes[wk[w].scan] = "compute_hash"]_vars

\* C24 witness: a scan has ended at compute_hash and an item dequeued
\* after it has been processed
C24_Witness ==
    \E s, t \in DOMAIN hist.outcomes :
       /\ hist.outcomes[s] = "compute_hash"
       /\ t > s

C26_GovernorThresholds ==
    /\ (hist.call = "should_pause") =>
          (hist.result <=> (hist.cpu > CPU_HIGH \/ hist.mem > MEM_HIGH))
    /\ (hist.call = "should_resume") =>
          (hist.result <=> (hist.cpu < CPU_RESUME /\ hist.mem < MEM_RESUME))
    /\ \A cpu \in GovSamples, mem \in GovSamples :
          /\ ENABLED (call_should_pause(cpu, mem)
                        /\ hist'.result = (cpu > CPU_HIGH \/ mem > MEM_HIGH))
          /\ ENABLED (call_should_resume(cpu, mem)
                        /\ hist'.result = (cpu < CPU_RESUME
                                             /\ mem < MEM_RESUME))

\* C26 witness: with the paused flag set, should_pause() has returned False
\* for samples between the resume and the high marks
C26_Witness ==
    /\ hist.call = "should_pause"
    /\ hist.was_paused
    /\ ~hist.result
    /\ hist.cpu > CPU_RESUME
    /\ hist.mem = MEM_HIGH

\* C27: hysteresis for the worker pool: no worker takes an item from the
\* queue while ResourceController.paused is True
C27_NoDequeueWhilePausedFlag ==
    [][(\E w \in Workers : Dequeues(w)) => ~paused]_vars

\* the call of process_file that follows the one a worker is in
NextCall(w) ==
    CASE wk[w].pc = "compute_hash" -> "get_cached_verdict"
      [] wk[w].pc = "get_cached_verdict" -> "decide"
      [] wk[w].pc = "decide" -> "store_verdict"
      [] wk[w].pc = "store_verdict" -> "log_decision"
      [] wk[w].pc = "log_decision" -> "quarantine_meta"
      [] wk[w].pc = "quarantine_meta" -> "quarantine_move"
      [] wk[w].pc = "quarantine_move" -> "log_quarantine"
      [] OTHER -> "return"

\* the step of w carries its item on to the next call, with the effect of
\* the call it leaves
GoesOn(w) ==
    /\ wk'[w].pc = NextCall(w)
    /\ wk'[w].scan = wk[w].scan
    /\ wk'[w].path = wk[w].path
    /\ wk[w].pc = "log_decision" => wk[w].verdict = MALICIOUS
    /\ wk[w].pc = "store_verdict" =>
          [hash |-> wk[w].file_hash, verdict |-> VerdictInt(wk[w].verdict)]
             \in cache'
    /\ wk[w].pc = "log_decision" => Len(log') = Len(log) + 1
    /\ wk[w].pc = "quarantine_meta" => wk'[w].q_name \in DOMAIN q_meta'
    /\ wk[w].pc = "quarantine_move" => wk[w].q_name \in DOMAIN q_files'

\* the step of w is the return of process_file
Completes(w) ==
    /\ Finishes(wk[w].scan)
    /\ hist'.outcomes[wk[w].scan] = "return"
    /\ wk'[w] = Idle
    /\ Len(log') = Len(log) + 1
    /\ \/ wk[w].pc = "log_quarantine"
       \/ wk[w].pc = "log_decision" /\ wk[w].verdict # MALICIOUS

\* the step of w is an exception of the call it is in, for a cause that
\* the call has
Fails(w) ==
    /\ Finishes(wk[w].scan)
    /\ wk'[w] = Idle
    /\ \/ /\ wk[w].pc = "compute_hash"
          /\ hist'.outcomes[wk[w].scan] = "compute_hash"
          /\ fs[wk[w].path] = None
       \/ /\ wk[w].pc = "get_cached_verdict"
          /\ hist'.outcomes[wk[w].scan] = "get_cached_verdict"
       \/ /\ wk[w].pc = "decide"
          /\ hist'.outcomes[wk[w].scan] = "decide"
          /\ decide(fs, wk[w].path, wk[w].cached).err # None
       \/ /\ wk[w].pc = "store_verdict"
          /\ hist'.outcomes[wk[w].scan] = "store_verdict"
       \/ /\ wk[w].pc = "quarantine_move"
          /\ hist'.outcomes[wk[w].scan] = "quarantine_file"
          /\ fs[wk[w].path] = None

\* C28: a worker that has dequeued an item carries it through process_file
\* whatever RUNNING and the governor say: in every state its next call can
\* be taken, each of its steps goes on to the next call with that call's
\* effect, returns, or ends with an exception the call itself raised, and it
\* is back at the RUNNING check only when the item is finished
C28_RunsToCompletion ==
    /\ [](\A w \in Workers :
            wk[w].pc \in ScanPcs =>
               ENABLED (WorkerStep(w)
                          /\ (GoesOn(w) \/ Completes(w) \/ Fails(w))))
    /\ [][\A w \in Workers :
            (wk[w].pc \in ScanPcs /\ wk'[w] # wk[w]) =>
               (GoesOn(w) \/ Completes(w) \/ Fails(w))]_vars

\* C28 witness: protection was stopped while a scan was in flight; with
\* RUNNING still cleared that scan has stored and logged its verdict,
\* quarantined the file and returned
C28_Witness ==
    /\ ~RUNNING
    /\ \E s \in hist.inflight :
          /\ s \in DOMAIN hist.outcomes
          /\ hist.outcomes[s] = "return"
          /\ \E i \in DOMAIN log :
                log[i].action = "quarantine" /\ log[i].scan = s
          /\ \E m \in hist.moves : m.scan = s /\ m.name \in DOMAIN q_files

\* the entries the watcher has put on the queue so far
Accepted == LiveEvents - budget.events

\* C29: each queue entry is processed at most once: every entry the watcher
\* put is either still waiting or was dequeued exactly once, the queue grows
\* only by a put of the watcher, a worker step changes the queue only by
\* taking its head, the end of a scan (failed or not) leaves the queue as
\* it is, and no scan ends twice
C29_NoRequeue ==
    /\ [](hist.nscans + Len(scan_queue) = Accepted)
    /\ [][/\ scan_queue' # scan_queue =>
               \/ /\ budget'.events = budget.events - 1
                  /\ \E p \in Paths : scan_queue' = Append(scan_queue, p)
                  /\ wk' = wk
               \/ /\ scan_queue' = Tail(scan_queue)
                  /\ \E w \in Workers : Dequeues(w)
          /\ \A w \in Workers :
               (wk[w].pc \in ScanPcs /\ wk'[w].pc \notin ScanPcs) =>
                  /\ scan_queue' = scan_queue
                  /\ Finishes(wk[w].scan)
                  /\ hist'.nscans = hist.nscans]_vars

\* C29 witness: a scan has failed, every event was put and dequeued, the
\* queue is empty and the workers are idle: the failed entry was scanned
\* once
C29_Witness ==
    /\ \E n \in DOMAIN hist.outcomes : hist.outcomes[n] = "decide"
    /\ budget.events = 0
    /\ scan_queue = <<>>
    /\ hist.nscans = LiveEvents
    /\ DOMAIN hist.outcomes = 1..LiveEvents
    /\ \A w \in Workers : wk[w].pc \notin ScanPcs

\* C30: the static rules return MALICIOUS or None, never BENIGN; so a result
\* of decide with source rules has verdict MALICIOUS and a result with
\* source default has verdict BENIGN
C30_RulesNeverBenign ==
    hist.decided =>
       /\ hist.rule_verdict \in {MALICIOUS, None}
       /\ hist.rule_verdict # BENIGN
       /\ hist.decision.source \in {"rules", "default"}
       /\ hist.decision.source = "rules" =>
             hist.decision.verdict = MALICIOUS
       /\ hist.decision.source = "default" =>
             hist.decision.verdict = BENIGN /\ hist.rule_verdict = None

\* C30 witness: a signed low-entropy vector with no section at all has been
\* decided MALICIOUS by the rules
C30_Witness ==
    /\ hist.decided
    /\ hist.decision.source = "rules"
    /\ hist.decision.verdict = MALICIOUS
    /\ hist.features[2] < MIN_SECTION_COUNT
    /\ hist.features[4] < MAX_ENTROPY_THRESHOLD
    /\ hist.features[7] = 1

\* C31: the entries of the audit log are in non-decreasing timestamp order:
\* no entry comes after an entry that carries a later timestamp
C31_TimestampOrder ==
    \A i, j \in DOMAIN log : i < j => log[i].ts <= log[j].ts

\* the newest k entries of s, in the order of s
Newest(s, k) ==
    LET m == IF k < Len(s) THEN k ELSE Len(s)
    IN  [i \in 1..m |-> s[Len(s) - m + i]]

\* C32: read_last_lines(n) returns the newest min(n, length of the log)
\* entries in log order for every n >= 0, none for n = 0, and the empty
\* list when the log file does not exist
C32_TailNewest ==
    hist.called =>
       /\ hist.exists => hist.result = Newest(hist.lines, hist.n)
       /\ hist.n = 0 => hist.result = <<>>
       /\ ~hist.exists => hist.result = <<>>

\* how many steps of its loop a worker has taken since it read RUNNING
StepsSinceCheck(pc) ==
    CASE pc = "running" -> 0
      [] pc = "should_pause" -> 1
      [] pc = "get" -> 2
      [] pc = "compute_hash" -> 3
      [] pc = "get_cached_verdict" -> 4
      [] pc = "decide" -> 5
      [] pc = "store_verdict" -> 6
      [] pc = "log_decision" -> 7
      [] pc = "quarantine_meta" -> 8
      [] pc = "quarantine_move" -> 9
      [] pc = "log_quarantine" -> 10
      [] OTHER -> 11

\* C33: once RUNNING is cleared and stays cleared, a worker takes at most one
\* further item; a worker is back at its RUNNING check within ten of its
\* own steps: each step moves it one position on in the loop or back to the
\* check, a step is always possible, and get() on an empty queue times out,
\* which brings the worker back to the check; at the check it goes on only
\* when RUNNING is set
C33_BoundedPauseReaction ==
    /\ [](\A w \in Workers : hist.further[w] <= 1)
    /\ [](\A w \in Workers :
            /\ StepsSinceCheck(wk[w].pc) <= 10
            /\ wk[w].pc # "running" =>
                  ENABLED (WorkerStep(w) /\ wk'[w] # wk[w])
            /\ (wk[w].pc = "get" /\ scan_queue = <<>>) =>
                  ENABLED (worker_get(w) /\ wk'[w].pc = "running"))
    /\ [][\A w \in Workers :
            wk'[w] # wk[w] =>
               /\ \/ wk'[w].pc = "running"
                  \/ StepsSinceCheck(wk'[w].pc)
                        = StepsSinceCheck(wk[w].pc) + 1
               /\ wk[w].pc = "running" => RUNNING]_vars

\* C33 witness: RUNNING is cleared, a worker that had passed its check took
\* one further item and finished it, every worker is back at the check, and
\* an item is still waiting in the queue
C33_Witness ==
    /\ ~RUNNING
    /\ \E w \in Workers : hist.further[w] = 1
    /\ \A w \in Workers : wk[w].pc = "running"
    /\ hist.inflight = {}
    /\ hist.nscans \in DOMAIN hist.outcomes
    /\ scan_queue # <<>>

\* what decide without a cached verdict yields for a file that holds c
DecidedFrom(c) ==
    decide_uncached([p \in Paths |-> c], CHOOSE p \in Paths : TRUE)

\* C34: every verdict the cache holds under an identity is the verdict
\* decide gives for the content that has this identity, even when the file
\* at the scanned path is replaced between compute_hash and
\* extract_features of a scan
C34_VerdictMatchesIdentity ==
    \A r \in cache :
       \E c \in Contents :
          /\ compute_digest(c) = r.hash
          /\ DecidedFrom(c).err = None
          /\ VerdictInt(DecidedFrom(c).verdict) = r.verdict

\* C35: once the cache holds a verdict for an identity no scan changes it:
\* every store_verdict on an identity that has a row writes the verdict the
\* row already has
C35_CachedVerdictStable ==
    [][\A r \in cache :
         \A r2 \in cache' : r2.hash = r.hash => r2.verdict = r.verdict]_vars

\* C36: in every state reachable from construction protection_active is
\* true exactly when RUNNING is set
C36_ProtectionFlagMatchesRunState == protection_active <=> RUNNING

\* the single-scan requests scan_single_file has accepted
GuiAccepted == GuiRequests - budget.events

\* C37: every request scan_single_file accepts is taken and processed
\* exactly once by a scan worker: accepted requests are waiting or taken, a
\* worker at its get() can take the head of a non-empty queue whether
\* RUNNING is set or cleared, a scan ends once and leaves the queue alone,
\* the worker is back at its get() after every outcome, and the n-th
\* accepted request is eventually finished
C37_SingleScanProcessedOnce ==
    /\ [](hist.nscans + Len(scan_queue) = GuiAccepted)
    /\ [](\A w \in Workers :
            (wk[w].pc = "running" /\ scan_queue # <<>>) =>
               ENABLED (scan_worker(w) /\ wk'[w].pc = "compute_hash"
                          /\ wk'[w].path = Head(scan_queue)))
    /\ [][\A w \in Workers :
            (wk[w].pc \in ScanPcs /\ wk'[w].pc \notin ScanPcs) =>
               /\ Finishes(wk[w].scan)
               /\ wk'[w] = Idle
               /\ scan_queue' = scan_queue]_vars
    /\ \A n \in 1..GuiRequests :
          (GuiAccepted >= n) ~> (n \in DOMAIN hist.outcomes)

\* C37 witness: with RUNNING cleared, three requests were accepted and all
\* three finished, one of them with an error and one after it with a
\* verdict
C37_Witness ==
    /\ ~RUNNING
    /\ hist.atPause # <<>>
    /\ GuiAccepted = GuiRequests
    /\ DOMAIN hist.outcomes = 1..GuiRequests
    /\ \E s, t \in DOMAIN hist.outcomes :
          /\ s < t
          /\ hist.outcomes[s] = "decide"
          /\ hist.outcomes[t] = "return"

\* C38: restore_file_from_quarantine moves the payload, then appends the
\* Restore event, then deletes the sidecar: a call whose move fails appends
\* nothing, keeps the sidecar and every file as it is and returns False; a
\* call whose move succeeds has the payload at its destination, one Restore
\* event more and no sidecar, and returns True
C38_RestoreOrder ==
    [][RestoreStep =>
         LET n == hist'.gui.name
             dest == hist'.gui.dest
         IN  IF n \notin DOMAIN q_files
             THEN /\ ~hist'.gui.ok
                  /\ log' = log
                  /\ q_meta' = q_meta
                  /\ q_files' = q_files
                  /\ fs' = fs
             ELSE /\ hist'.gui.ok
                  /\ fs'[dest] = q_files[n]
                  /\ n \notin DOMAIN q_files'
                  /\ Len(log') = Len(log) + 1
                  /\ log'[Len(log')].action = "restore"
                  /\ SubSeq(log', 1, Len(log)) = log
                  /\ n \notin DOMAIN q_meta']_vars

\* C38 witness: a restore has failed on a name whose payload was restored
\* before and whose sidecar a new quarantine of the file has written again:
\* the sidecar is there and the log has the one Restore event of the first
\* restore
C38_Witness ==
    /\ hist.gui.op = "restore"
    /\ ~hist.gui.ok
    /\ hist.gui.name \in DOMAIN q_meta
    /\ hist.gui.name \notin DOMAIN q_files
    /\ Cardinality({i \in DOMAIN log : log[i].action = "restore"}) = 1

\* C39: every eligible file present in the watch directory is eventually
\* passed to process_file, even when the scan of another file of the
\* directory raises on every polling round
C39_EveryAttachmentScanned ==
    \A p \in MailPaths :
       (fs[p] # None /\ is_attachment(p)) ~> (p \in hist.passed)

====
